---------------------------- MODULE Spec2Model ----------------------------
(***************************************************************************)
(* Schema / graph core of the instant CLI package                          *)
(* (src/client/packages/cli/index.js):                                     *)
(*   - DataAttrDef and its copy-on-write modifiers,                        *)
(*   - graph() / enrichEntitiesWithLinks(): the runtime link index,        *)
(*   - the type-level links map (EntityForwardLinksMap & friends) and the  *)
(*     InstaQL result-shape types, evaluated here as ordinary operators,   *)
(*   - pushSchema(): the push-schema command,                              *)
(* and of the Stripe webhook of the server                                 *)
(* (src/server/src/instant/stripe.clj).                                    *)
(*                                                                         *)
(* JavaScript objects used as maps are TLA+ functions with a finite        *)
(* domain of strings.  A TypeScript type built from string literals is     *)
(* the set of its literals: a union is a set union, an intersection a set  *)
(* intersection and `never` the empty set.                                 *)
(***************************************************************************)
EXTENDS Integers, Sequences, FiniteSets, TLC

VARIABLES
  pc,          \* "start" before any call of graph(), "returned" after one
  appId,       \* argument of the last graph() call
  entities,    \* argument of the last graph() call (entities without links)
  links,       \* Object.values(links) of the last call, in iteration order
  linksIndex,  \* the local linksIndex of enrichEntitiesWithLinks
  thrown,      \* the exception the last call ended with: <<>> when it returned,
               \* else <<error name, entity, label>>
  graph,       \* the InstantGraph the last call returned
  graph2,      \* the InstantGraph a second call with the same arguments returned
  query,       \* the query document handed to InstaQLQueryResult
  result,      \* InstaQLQueryResult<graph.entities, query>
  heap,        \* the DataAttrDef objects allocated so far, by reference
  env,           \* (config/get-env) of the server
  subscriptions, \* the rows of instant_subscriptions, in insertion order
  notifications, \* the messages sent by discord/send! and postmark/send!
  handlers,      \* the webhook request each delivery is running
  options,     \* program.opts() of the CLI
  push,        \* position and locals of the running pushSchema()
  log          \* the calls pushSchema() has made, with their results, in order

graphVars == <<pc, appId, entities, links, linksIndex, thrown, graph, graph2, query, result, heap>>
stripeVars == <<env, subscriptions, notifications, handlers>>
pushVars == <<options, push, log>>

vars == <<graphVars, stripeVars, pushVars>>

-----------------------------------------------------------------------------
(* Bounds and input alphabets *)

MaxLinks == 2        \* link definitions handed to graph()
MaxSchemaLinks == 1  \* link definitions of a schema that is queried or built twice
MaxDepth == 2        \* nesting of a query document below its top-level key
MaxObjects == 3      \* DataAttrDef objects allocated
MaxDeliveries == 3   \* webhook requests Stripe delivers
MaxSteps == 2        \* steps of the plan the server answers push-schema with

EntityNames == {"authors", "posts"}
Labels == {"posts", "author"}
AppIds == {"app-1"}

-----------------------------------------------------------------------------
(* JavaScript object helpers *)

EmptyMap == [k \in {} |-> k]

\* obj[k] = v on a plain object
Put(obj, k, v) == [x \in (DOMAIN obj) \cup {k} |-> IF x = k THEN v ELSE obj[x]]

\* obj[k], where spreading `undefined` contributes no property
GetOrEmpty(obj, k) == IF k \in DOMAIN obj THEN obj[k] ELSE EmptyMap

\* { ...a, ...b }
Spread(a, b) ==
  [x \in (DOMAIN a) \cup (DOMAIN b) |-> IF x \in DOMAIN b THEN b[x] ELSE a[x]]

-----------------------------------------------------------------------------
(* DataAttrDef *)

ValueTypes == {"string", "number", "boolean", "json"}

DefaultConfig == [indexed |-> FALSE, unique |-> FALSE]

DataAttrDef(valueType, required, config) ==
  [valueType |-> valueType, required |-> required, config |-> config]

string == DataAttrDef("string", TRUE, DefaultConfig)
number == DataAttrDef("number", TRUE, DefaultConfig)
boolean == DataAttrDef("boolean", TRUE, DefaultConfig)
json == DataAttrDef("json", TRUE, DefaultConfig)
any == DataAttrDef("json", TRUE, DefaultConfig)

optional(this) == DataAttrDef(this.valueType, FALSE, DefaultConfig)

unique(this) ==
  DataAttrDef(this.valueType, this.required,
              [indexed |-> this.config.indexed, unique |-> TRUE])

indexed(this) ==
  DataAttrDef(this.valueType, this.required,
              [indexed |-> TRUE, unique |-> this.config.unique])

-----------------------------------------------------------------------------
(* entity(), LinkDef, graph() *)

entity(attrs) == [attrs |-> attrs, links |-> EmptyMap]

CardinalityKind == {"one", "many"}

LinkSide == [on : EntityNames, label : Labels, has : CardinalityKind]

LinkDef == [forward : LinkSide, reverse : LinkSide]

LinkAttrDef(entityName, cardinality) ==
  [entityName |-> entityName, cardinality |-> cardinality]

\* Mutant: a label that is already in the index keeps its first entry
IndexLink_KeepsFirst(idx, linkDef) ==
  LET fwd0 == IF linkDef.forward.on \in DOMAIN idx.fwd
              THEN idx.fwd
              ELSE Put(idx.fwd, linkDef.forward.on, EmptyMap)
      rev0 == IF linkDef.reverse.on \in DOMAIN idx.rev
              THEN idx.rev
              ELSE Put(idx.rev, linkDef.reverse.on, EmptyMap)
      fwd1 == IF linkDef.forward.label \in DOMAIN fwd0[linkDef.forward.on]
              THEN fwd0
              ELSE Put(fwd0, linkDef.forward.on,
                       Put(fwd0[linkDef.forward.on], linkDef.forward.label,
                           LinkAttrDef(linkDef.reverse.on, linkDef.forward.has)))
      rev1 == IF linkDef.reverse.label \in DOMAIN rev0[linkDef.reverse.on]
              THEN rev0
              ELSE Put(rev0, linkDef.reverse.on,
                       Put(rev0[linkDef.reverse.on], linkDef.reverse.label,
                           LinkAttrDef(linkDef.forward.on, linkDef.reverse.has)))
  IN [fwd |-> fwd1, rev |-> rev1]

\* One iteration of the for loop of enrichEntitiesWithLinks
IndexLink(idx, linkDef) ==
  LET fwd0 == IF linkDef.forward.on \in DOMAIN idx.fwd
              THEN idx.fwd
              ELSE Put(idx.fwd, linkDef.forward.on, EmptyMap)
      rev0 == IF linkDef.reverse.on \in DOMAIN idx.rev
              THEN idx.rev
              ELSE Put(idx.rev, linkDef.reverse.on, EmptyMap)
      fwd1 == Put(fwd0, linkDef.forward.on,
                  Put(fwd0[linkDef.forward.on], linkDef.forward.label,
                      LinkAttrDef(linkDef.reverse.on, linkDef.forward.has)))
      rev1 == Put(rev0, linkDef.reverse.on,
                  Put(rev0[linkDef.reverse.on], linkDef.reverse.label,
                      LinkAttrDef(linkDef.forward.on, linkDef.reverse.has)))
  IN [fwd |-> fwd1, rev |-> rev1]

\* The whole for loop: Object.values(links) in iteration order
RECURSIVE BuildIndex(_, _)
BuildIndex(idx, ls) ==
  IF ls = <<>> THEN idx ELSE BuildIndex(IndexLink(idx, Head(ls)), Tail(ls))

EmptyIndex == [fwd |-> EmptyMap, rev |-> EmptyMap]

\* Mutant: the reverse labels are left out of the merge
MergedLinks_ForwardOnly(idx, name) == GetOrEmpty(idx.fwd, name)

\* The links of one enriched entity: { ...linksIndex.fwd[name], ...linksIndex.rev[name] }
MergedLinks(idx, name) ==
  Spread(GetOrEmpty(idx.fwd, name), GetOrEmpty(idx.rev, name))

\* Object.fromEntries(Object.entries(entities).map(...)):  { ...def, links: ... }
EnrichEntities(ents, idx) ==
  [name \in DOMAIN ents |->
     [attrs |-> ents[name].attrs, links |-> MergedLinks(idx, name)]]

enrichEntitiesWithLinks(ents, ls) == EnrichEntities(ents, BuildIndex(EmptyIndex, ls))

InstantGraph(id, ents, ls) == [appId |-> id, entities |-> ents, links |-> ls]

NoGraph == InstantGraph("", EmptyMap, <<>>)

-----------------------------------------------------------------------------
(* Inputs of graph() *)

\* The attributes the schema gives each entity
AttrsOf(name) ==
  IF name = "authors"
  THEN [name |-> unique(string)]
  ELSE [title |-> string, body |-> optional(string)]

EntitiesInputs == {[n \in S |-> entity(AttrsOf(n))] : S \in (SUBSET EntityNames) \ {{}}}

\* Object.values(links): the sequences of n link definitions drawn from S
LinksOfLength(S, n) == [1..n -> S]


-----------------------------------------------------------------------------
(* Derived types.  Entities and Links are the type arguments graph() is    *)
(* instantiated with; Links is indexed by position instead of by name.     *)
(* A link entry of the type-level map is                                   *)
(*   [entityName : set of literals, cardinality : set of literals].        *)

\* Links[LinkName][Direction]
Side(linkDef, Direction) ==
  IF Direction = "forward" THEN linkDef.forward ELSE linkDef.reverse

\* Key remapping `as`: link names that map to one label share a property,
\* whose type is the union of their LinkDefs.
LinksIndexedByEntity(Entities, Links, Direction) ==
  [FwdEntity \in DOMAIN Entities |->
     LET names == {n \in DOMAIN Links : Side(Links[n], Direction).on = FwdEntity}
     IN [label \in {Side(Links[n], Direction).label : n \in names} |->
           {Links[n] : n \in {m \in names : Side(Links[m], Direction).label = label}}]]

\* infer Cardinality in the 4th and infer RelatedEntityName in the 5th
\* position of LinkDef<Entities, FwdEntity, FwdAttr, FwdCardinality,
\* RevEntity, RevAttr, RevCardinality>
EntityForwardLinksMap(EntityName, Entities, Links) ==
  LET LinkIndexFwd == LinksIndexedByEntity(Entities, Links, "reverse")
  IN IF EntityName \in DOMAIN LinkIndexFwd
     THEN [LinkName \in DOMAIN LinkIndexFwd[EntityName] |->
             [entityName |-> {l.reverse.on : l \in LinkIndexFwd[EntityName][LinkName]},
              cardinality |-> {l.forward.has : l \in LinkIndexFwd[EntityName][LinkName]}]]
     ELSE EmptyMap

\* infer RelatedEntityName in the 2nd and infer Cardinality in the 7th position
EntityReverseLinksMap(EntityName, Entities, Links) ==
  LET RevLinkIndex == LinksIndexedByEntity(Entities, Links, "forward")
  IN IF EntityName \in DOMAIN RevLinkIndex
     THEN [LinkName \in DOMAIN RevLinkIndex[EntityName] |->
             [entityName |-> {l.forward.on : l \in RevLinkIndex[EntityName][LinkName]},
              cardinality |-> {l.reverse.has : l \in RevLinkIndex[EntityName][LinkName]}]]
     ELSE EmptyMap

\* A & B on two object types: a property of both has the intersection of
\* its two types
Intersection(a, b) ==
  [k \in (DOMAIN a) \cup (DOMAIN b) |->
     IF k \in DOMAIN a /\ k \in DOMAIN b
     THEN [entityName |-> a[k].entityName \cap b[k].entityName,
           cardinality |-> a[k].cardinality \cap b[k].cardinality]
     ELSE IF k \in DOMAIN a THEN a[k] ELSE b[k]]

EntityWithLinks(EntityName, Entities, Links) ==
  [attrs |-> Entities[EntityName].attrs,
   links |-> Intersection(EntityForwardLinksMap(EntityName, Entities, Links),
                          EntityReverseLinksMap(EntityName, Entities, Links))]

EntitiesWithLinks(Entities, Links) ==
  [EntityName \in DOMAIN Entities |-> EntityWithLinks(EntityName, Entities, Links)]

-----------------------------------------------------------------------------
(* InstaQL helpers.  An entity shape is [attrs, links]: attrs maps every   *)
(* attribute field to [optional], links maps every query key to the set of *)
(* alternatives of its type (empty: never), an alternative being           *)
(* [cardinality, entityName, shape] with cardinality "one" for T and       *)
(* "many" for T[].                                                         *)

\* Mutant: IsRequired is ignored, every field is ValueType
InstaQLAttrsResult_AllRequired(Entities, EntityName) ==
  [AttrName \in DOMAIN Entities[EntityName].attrs |-> [optional |-> FALSE]]

InstaQLAttrsResult(Entities, EntityName) ==
  [AttrName \in DOMAIN Entities[EntityName].attrs |->
     [optional |-> ~ Entities[EntityName].attrs[AttrName].required]]

RECURSIVE InstaQLEntityResult(_, _, _)
RECURSIVE InstaQLLinksResult(_, _, _)

InstaQLLinksResult(Entities, EntityName, Query) ==
  [QueryPropName \in DOMAIN Query |->
     IF QueryPropName \in DOMAIN Entities[EntityName].links
     THEN LET def == Entities[EntityName].links[QueryPropName]
          IN UNION {IF LinkedEntityName \in DOMAIN Entities
                    THEN {[cardinality |-> IF CardinalityT = "one" THEN "one" ELSE "many",
                           entityName |-> LinkedEntityName,
                           shape |-> InstaQLEntityResult(Entities, LinkedEntityName,
                                                         Query[QueryPropName])]
                            : CardinalityT \in def.cardinality}
                    ELSE {}
                    : LinkedEntityName \in def.entityName}
     ELSE {}]

InstaQLEntityResult(Entities, EntityName, Query) ==
  [attrs |-> InstaQLAttrsResult(Entities, EntityName),
   links |-> InstaQLLinksResult(Entities, EntityName, Query)]

\* Mutant: the key is kept
Omit_KeepsKey(shape, K) == shape

\* Omit<T, K>
Omit(shape, K) ==
  [attrs |-> [a \in (DOMAIN shape.attrs) \ {K} |-> shape.attrs[a]],
   links |-> [l \in (DOMAIN shape.links) \ {K} |-> shape.links[l]]]

InstaQLQueryResult(Entities, Query) ==
  [QueryPropName \in DOMAIN Query |->
     IF QueryPropName \in DOMAIN Entities
     THEN IF "$first" \in DOMAIN Query[QueryPropName]
          THEN {[cardinality |-> "one",
                 entityName |-> QueryPropName,
                 shape |-> Omit(InstaQLEntityResult(Entities, QueryPropName,
                                                    Query[QueryPropName]), "$first")]}
          ELSE {[cardinality |-> "many",
                 entityName |-> QueryPropName,
                 shape |-> InstaQLEntityResult(Entities, QueryPropName,
                                               Query[QueryPropName])]}
     ELSE {}]

-----------------------------------------------------------------------------
(* Query documents *)

NestedKeys == Labels \cup {"nonexistentLink"}

\* A top-level key that names no entity: its sub-query is never read
NonEntityQueries == {[k \in {"comments"} |-> EmptyMap]}

RECURSIVE NestedQueries(_)
NestedQueries(d) ==
  IF d = 0 THEN {EmptyMap}
  ELSE {EmptyMap} \cup {[k \in {key} |-> sub] : key \in NestedKeys, sub \in NestedQueries(d - 1)}

Queries ==
  {EmptyMap}
    \cup NonEntityQueries
    \cup {[k \in {key} |-> sub] : key \in EntityNames, sub \in NestedQueries(MaxDepth)}
    \cup {[k \in {key} |-> Put(sub, "$first", EmptyMap)] :
            key \in EntityNames, sub \in NestedQueries(MaxDepth)}

\* Links extends LinksDef<EntitiesWithoutLinks>: a schema that type-checks
\* names only keys of its entities in forward.on and reverse.on
LinksDef(Entities) ==
  {l \in LinkDef : l.forward.on \in DOMAIN Entities /\ l.reverse.on \in DOMAIN Entities}

SchemaLinksInputs(Entities) ==
  UNION {LinksOfLength(LinksDef(Entities), n) : n \in 0..MaxSchemaLinks}

-----------------------------------------------------------------------------
(* The Stripe webhook and the push-schema command before they run.  A      *)
(* value that may be null or undefined is a sequence: <<>> when it is,     *)
(* <<v>> when it is v.                                                     *)

Deliveries == 1..MaxDeliveries

NoEvent == [id |-> "", type |-> "", userId |-> ""]

\* A delivery Stripe has not made yet
IdleHandler == [pc |-> "idle", event |-> NoEvent]

NoWebhook ==
  /\ env = "dev"
  /\ subscriptions = <<>>
  /\ notifications = <<>>
  /\ handlers = [d \in Deliveries |-> IdleHandler]

\* No schema module has called graph() and no DataAttrDef is allocated
NoGraphCall ==
  /\ pc = "start"
  /\ appId = ""
  /\ entities = EmptyMap
  /\ links = <<>>
  /\ linksIndex = EmptyIndex
  /\ thrown = <<>>
  /\ graph = NoGraph
  /\ graph2 = NoGraph
  /\ query = EmptyMap
  /\ result = EmptyMap
  /\ heap = <<>>

\* pushSchema() before its first statement
IdlePush == [pc |-> "start", authToken |-> <<>>, schema |-> <<>>, steps |-> 0]

NoCommand ==
  /\ options = [y |-> FALSE, token |-> <<>>]
  /\ push = IdlePush
  /\ log = <<>>

-----------------------------------------------------------------------------
(* graph(appId, entities, links), called once when the schema module is    *)
(* loaded (export default i.graph(...)).  The code has no throw statement, *)
(* so every call returns an InstantGraph.                                  *)

graph_(id, ents, ls) ==
  /\ pc' = "returned"
  /\ appId' = id
  /\ entities' = ents
  /\ links' = ls
  /\ linksIndex' = BuildIndex(EmptyIndex, ls)
  /\ thrown' = <<>>
  /\ graph' = InstantGraph(id, enrichEntitiesWithLinks(ents, ls), ls)
  /\ UNCHANGED <<graph2, query, result, heap, stripeVars, pushVars>>

Init ==
  /\ pc = "start"
  /\ appId = ""
  /\ entities = EmptyMap
  /\ links = <<>>
  /\ linksIndex = EmptyIndex
  /\ thrown = <<>>
  /\ graph = NoGraph
  /\ graph2 = NoGraph
  /\ query = EmptyMap
  /\ result = EmptyMap
  /\ heap = <<>>
  /\ NoWebhook
  /\ NoCommand

graphCall ==
  /\ pc = "start"
  /\ \E id \in AppIds, ents \in EntitiesInputs, n \in 0..MaxLinks :
       \E ls \in LinksOfLength(LinkDef, n) : graph_(id, ents, ls)

Next == graphCall

Spec == Init /\ [][Next]_vars

-----------------------------------------------------------------------------
(* graph() called twice on the same argument objects:                      *)
(*   const a = graph(appId, entities, links);                              *)
(*   const b = graph(appId, entities, links);                              *)
(* entities and links are the caller's objects, which both calls receive   *)
(* by reference; appId is a string.                                        *)

\* Mutant: the enriched links are assigned to def.links of the argument
argumentsAfter_InPlace(ents, ls) ==
  [entities |-> enrichEntitiesWithLinks(ents, ls), links |-> ls]

\* The argument objects as a call leaves them: linksIndex and
\* enrichedEntities are new objects, { ...def, links } copies def, and no
\* statement assigns to entities, links or a property of either
argumentsAfter(ents, ls) == [entities |-> ents, links |-> ls]

InitRepeat ==
  /\ pc = "start"
  /\ appId \in AppIds
  /\ entities \in EntitiesInputs
  /\ links \in UNION {LinksOfLength(LinkDef, n) : n \in 0..MaxSchemaLinks}
  /\ linksIndex = EmptyIndex
  /\ thrown = <<>>
  /\ graph = NoGraph
  /\ graph2 = NoGraph
  /\ query = EmptyMap
  /\ result = EmptyMap
  /\ heap = <<>>
  /\ NoWebhook
  /\ NoCommand

graphFirst ==
  /\ pc = "start"
  /\ pc' = "returned"
  /\ linksIndex' = BuildIndex(EmptyIndex, links)
  /\ thrown' = <<>>
  /\ graph' = InstantGraph(appId, enrichEntitiesWithLinks(entities, links), links)
  /\ entities' = argumentsAfter(entities, links).entities
  /\ links' = argumentsAfter(entities, links).links
  /\ UNCHANGED <<appId, graph2, query, result, heap, stripeVars, pushVars>>

graphSecond ==
  /\ pc = "returned"
  /\ pc' = "repeated"
  /\ linksIndex' = BuildIndex(EmptyIndex, links)
  /\ thrown' = <<>>
  /\ graph2' = InstantGraph(appId, enrichEntitiesWithLinks(entities, links), links)
  /\ entities' = argumentsAfter(entities, links).entities
  /\ links' = argumentsAfter(entities, links).links
  /\ UNCHANGED <<appId, graph, query, result, heap, stripeVars, pushVars>>

NextRepeat == graphFirst \/ graphSecond

SpecRepeat == InitRepeat /\ [][NextRepeat]_vars

-----------------------------------------------------------------------------
(* DataAttrDef objects on the heap: a reference is a position of heap.     *)
(* Every constructor call allocates a new object with a config object of   *)
(* its own (a default parameter or a spread), so config is held by value.  *)

\* new DataAttrDef(...)
new(obj) ==
  /\ heap' = Append(heap, obj)
  /\ UNCHANGED <<pc, appId, entities, links, linksIndex, thrown, graph, graph2, query, result>>
  /\ UNCHANGED <<stripeVars, pushVars>>

callString ==
  /\ Len(heap) < MaxObjects
  /\ new(string)

callNumber ==
  /\ Len(heap) < MaxObjects
  /\ new(number)

callBoolean ==
  /\ Len(heap) < MaxObjects
  /\ new(boolean)

callJson ==
  /\ Len(heap) < MaxObjects
  /\ new(json)

callAny ==
  /\ Len(heap) < MaxObjects
  /\ new(any)

\* Mutant: the receiver's config is updated in place and the receiver returned
uniqueMethod_InPlace(this) ==
  /\ heap' = [heap EXCEPT ![this] = unique(heap[this])]
  /\ UNCHANGED <<pc, appId, entities, links, linksIndex, thrown, graph, graph2, query, result>>
  /\ UNCHANGED <<stripeVars, pushVars>>

optionalMethod(this) == new(optional(heap[this]))
uniqueMethod(this) == new(unique(heap[this]))
indexedMethod(this) == new(indexed(heap[this]))

callOptional ==
  /\ Len(heap) < MaxObjects
  /\ \E this \in DOMAIN heap : optionalMethod(this)

callUnique ==
  /\ Len(heap) < MaxObjects
  /\ \E this \in DOMAIN heap : uniqueMethod(this)

callIndexed ==
  /\ Len(heap) < MaxObjects
  /\ \E this \in DOMAIN heap : indexedMethod(this)

NextAttr ==
  \/ callString
  \/ callNumber
  \/ callBoolean
  \/ callJson
  \/ callAny
  \/ callOptional
  \/ callUnique
  \/ callIndexed

SpecAttr == Init /\ [][NextAttr]_vars

\* C10: the modifiers are copy-on-write: no call changes the valueType,
\* required, unique or indexed field of an object allocated before it, so a
\* reference held to the receiver observes the same value afterwards.
C10_ModifiersCopyOnWrite ==
  [][\A ref \in DOMAIN heap : ref \in DOMAIN heap' /\ heap'[ref] = heap[ref]]_vars

\* The three modifiers have been called in a chain starting from string()
C10_Witness ==
  /\ Len(heap) >= 3
  /\ heap[1] = string
  /\ heap[2] = unique(heap[1])
  /\ heap[3] = optional(heap[2])
  /\ heap[2] # heap[1]
  /\ heap[3] # heap[2]

\* The object the step has allocated
Made == heap'[Len(heap')]

\* C14: each modifier changes only its own field: optional() sets required to
\* false and keeps valueType, unique and indexed; unique() sets unique to true
\* and keeps valueType, required and indexed; indexed() sets indexed to true
\* and keeps valueType, required and unique.  Hence a chain of modifiers gives
\* the same AttributeDef in either order: when the receiver of a modifier is
\* itself the result of another modifier, the object made equals the one the
\* two modifiers make in the opposite order (string().unique().optional()
\* equals string().optional().unique()).
C14_ModifiersChangeOwnField ==
  [][\A this \in DOMAIN heap :
       /\ optionalMethod(this) =>
            /\ Made = [heap[this] EXCEPT !.required = FALSE]
            /\ \A from \in DOMAIN heap :
                 /\ heap[this] = unique(heap[from]) => Made = unique(optional(heap[from]))
                 /\ heap[this] = indexed(heap[from]) => Made = indexed(optional(heap[from]))
       /\ uniqueMethod(this) =>
            /\ Made = [heap[this] EXCEPT !.config.unique = TRUE]
            /\ \A from \in DOMAIN heap :
                 /\ heap[this] = optional(heap[from]) => Made = optional(unique(heap[from]))
                 /\ heap[this] = indexed(heap[from]) => Made = indexed(unique(heap[from]))
       /\ indexedMethod(this) =>
            /\ Made = [heap[this] EXCEPT !.config.indexed = TRUE]
            /\ \A from \in DOMAIN heap :
                 /\ heap[this] = optional(heap[from]) => Made = optional(indexed(heap[from]))
                 /\ heap[this] = unique(heap[from]) => Made = unique(indexed(heap[from]))]_vars

-----------------------------------------------------------------------------
(* Properties of graph() *)

Returned == pc = "returned"

LinkIds == 1..Len(links)

\* Two link definitions write the same (entity, label) key in the same
\* direction with different targets
DuplicateKey(a, b) ==
  \/ /\ a.forward.on = b.forward.on
     /\ a.forward.label = b.forward.label
     /\ a.reverse.on # b.reverse.on
  \/ /\ a.reverse.on = b.reverse.on
     /\ a.reverse.label = b.reverse.label
     /\ a.forward.on # b.forward.on

HasDuplicateKey == \E i, j \in LinkIds : i < j /\ DuplicateKey(links[i], links[j])

\* C1: every link definition is recorded in the returned graph: the forward
\* entity's links map holds the forward label with the reverse entity and the
\* forward cardinality, and the reverse entity's links map holds the reverse
\* label with the forward entity and the reverse cardinality (self-links
\* included).
C1_EveryLinkRecorded ==
  Returned =>
    \A i \in LinkIds :
      LET l == links[i]
          A == l.forward.on
          B == l.reverse.on
      IN /\ A \in DOMAIN graph.entities =>
              /\ l.forward.label \in DOMAIN graph.entities[A].links
              /\ graph.entities[A].links[l.forward.label] = LinkAttrDef(B, l.forward.has)
         /\ B \in DOMAIN graph.entities =>
              /\ l.reverse.label \in DOMAIN graph.entities[B].links
              /\ graph.entities[B].links[l.reverse.label] = LinkAttrDef(A, l.reverse.has)

\* C3: when two link definitions write the same (entity, label) key in the
\* same direction with different targets, graph() raises DuplicateLinkLabel
\* and produces no graph.
C3_DuplicateLabelRaises ==
  (Returned /\ HasDuplicateKey) =>
    (thrown # <<>> /\ thrown[1] = "DuplicateLinkLabel" /\ graph = NoGraph)

Orders(n) == {p \in [1..n -> 1..n] : \A i, j \in 1..n : p[i] = p[j] => i = j}

Permuted(ls, p) == [i \in 1..Len(ls) |-> ls[p[i]]]

\* C4: processing the link definitions in any permutation of their iteration
\* order yields the same fwd/rev index and the same enriched entities.
C4_OrderIndependent ==
  Returned =>
    \A p \in Orders(Len(links)) :
      /\ BuildIndex(EmptyIndex, Permuted(links, p)) = linksIndex
      /\ enrichEntitiesWithLinks(entities, Permuted(links, p)) = graph.entities

\* The entity `absent` is no key of entities, and `other`, the other endpoint
\* of the link, carries an entry that names it
OrphanAccepted(absent, other) ==
  /\ thrown = <<>>
  /\ graph # NoGraph
  /\ absent \notin DOMAIN graph.entities
  /\ other \in DOMAIN entities =>
       \E label \in DOMAIN graph.entities[other].links :
         graph.entities[other].links[label].entityName = absent

\* C5: a link definition whose forward.on or reverse.on is no key of entities
\* is accepted: graph() returns a graph without an error, the absent entity is
\* no key of graph.entities, and the link's other endpoint, when it is an
\* entity, carries a links entry that names the absent entity.
C5_OrphanLinkKept ==
  Returned =>
    \A i \in LinkIds :
      /\ links[i].forward.on \notin DOMAIN entities =>
           OrphanAccepted(links[i].forward.on, links[i].reverse.on)
      /\ links[i].reverse.on \notin DOMAIN entities =>
           OrphanAccepted(links[i].reverse.on, links[i].forward.on)

\* The entities some link definition names, in either direction
Linked == {links[i].forward.on : i \in LinkIds} \cup {links[i].reverse.on : i \in LinkIds}

\* C6: graph() enriches exactly the entities it is given: same keys, attrs
\* unchanged, links the union of fwd[name] and rev[name] (every label of
\* either, each entry taken from one of the two), and the empty mapping for
\* an entity no link names.
C6_EnrichesExactlyEntities ==
  Returned =>
    /\ DOMAIN graph.entities = DOMAIN entities
    /\ \A name \in DOMAIN entities :
         LET fwd == GetOrEmpty(linksIndex.fwd, name)
             rev == GetOrEmpty(linksIndex.rev, name)
             enriched == graph.entities[name]
         IN /\ enriched.attrs = entities[name].attrs
            /\ DOMAIN enriched.links = (DOMAIN fwd) \cup (DOMAIN rev)
            /\ \A label \in DOMAIN enriched.links :
                 \/ label \in DOMAIN fwd /\ enriched.links[label] = fwd[label]
                 \/ label \in DOMAIN rev /\ enriched.links[label] = rev[label]
            /\ name \notin Linked => enriched.links = EmptyMap

\* One entity has labels from both directions and another has no link at all
C6_Witness ==
  /\ Returned
  /\ \E name \in DOMAIN entities :
       /\ name \in DOMAIN linksIndex.fwd
       /\ name \in DOMAIN linksIndex.rev
       /\ DOMAIN linksIndex.fwd[name] # DOMAIN linksIndex.rev[name]
  /\ \E name \in DOMAIN entities : name \notin Linked /\ graph.entities[name].links = EmptyMap

\* Link definition j is processed after i and writes the same (entity, label)
\* key in direction Direction
WritesOver(j, i, Direction) ==
  /\ j > i
  /\ Side(links[j], Direction).on = Side(links[i], Direction).on
  /\ Side(links[j], Direction).label = Side(links[i], Direction).label

\* C12: duplicate link labels are resolved last-write-wins with no error: the
\* fwd (rev) index entry of an (entity, label) key is the one written by the
\* last link definition, in processing order, that writes the key in that
\* direction; and a label that is both a forward and a reverse label of an
\* entity has the reverse entry in the entity's merged links map.
C12_LastWriteWins ==
  Returned =>
    /\ thrown = <<>>
    /\ graph # NoGraph
    /\ \A i \in LinkIds :
         LET l == links[i]
         IN /\ (~ \E j \in LinkIds : WritesOver(j, i, "forward")) =>
                 linksIndex.fwd[l.forward.on][l.forward.label]
                   = LinkAttrDef(l.reverse.on, l.forward.has)
            /\ (~ \E j \in LinkIds : WritesOver(j, i, "reverse")) =>
                 linksIndex.rev[l.reverse.on][l.reverse.label]
                   = LinkAttrDef(l.forward.on, l.reverse.has)
    /\ \A name \in DOMAIN graph.entities :
         \A label \in (DOMAIN GetOrEmpty(linksIndex.fwd, name))
                        \cap (DOMAIN GetOrEmpty(linksIndex.rev, name)) :
           graph.entities[name].links[label] = linksIndex.rev[name][label]

\* A later link definition has overwritten a different forward entry, and an
\* entity has one label with different forward and reverse entries
C12_Witness ==
  /\ Returned
  /\ \E i, j \in LinkIds :
       /\ WritesOver(j, i, "forward")
       /\ LinkAttrDef(links[i].reverse.on, links[i].forward.has)
            # LinkAttrDef(links[j].reverse.on, links[j].forward.has)
       /\ linksIndex.fwd[links[i].forward.on][links[i].forward.label]
            = LinkAttrDef(links[j].reverse.on, links[j].forward.has)
  /\ \E name \in DOMAIN graph.entities :
       \E label \in (DOMAIN GetOrEmpty(linksIndex.fwd, name))
                      \cap (DOMAIN GetOrEmpty(linksIndex.rev, name)) :
         /\ linksIndex.fwd[name][label] # linksIndex.rev[name][label]
         /\ graph.entities[name].links[label] = linksIndex.rev[name][label]

-----------------------------------------------------------------------------
(* Query result shapes of a schema whose graph() call has returned *)

InitQuery ==
  /\ pc = "returned"
  /\ appId \in AppIds
  /\ entities \in EntitiesInputs
  /\ links \in SchemaLinksInputs(entities)
  /\ linksIndex = BuildIndex(EmptyIndex, links)
  /\ thrown = <<>>
  /\ graph = InstantGraph(appId, enrichEntitiesWithLinks(entities, links), links)
  /\ graph2 = NoGraph
  /\ query = EmptyMap
  /\ result = EmptyMap
  /\ heap = <<>>
  /\ NoWebhook
  /\ NoCommand

\* The type InstaQLQueryResult<typeof graph.entities, typeof q>
resolve(q) ==
  /\ pc' = "resolved"
  /\ query' = q
  /\ result' = InstaQLQueryResult(EntitiesWithLinks(entities, links), q)
  /\ UNCHANGED <<appId, entities, links, linksIndex, thrown, graph, graph2, heap>>
  /\ UNCHANGED <<stripeVars, pushVars>>

resolveQuery ==
  /\ pc = "returned"
  /\ \E q \in Queries : resolve(q)

NextQuery == resolveQuery

SpecQuery == InitQuery /\ [][NextQuery]_vars


\* The (entity, label) keys the link definitions write, forward and reverse
\* alike, are pairwise different
NoLabelCollision ==
  /\ \A i, j \in LinkIds : \A Direction \in {"forward", "reverse"} :
       ~ WritesOver(j, i, Direction)
  /\ \A i, j \in LinkIds :
       ~ (/\ links[i].forward.on = links[j].reverse.on
          /\ links[i].forward.label = links[j].reverse.label)

\* C13: the statically derived links map agrees with the runtime one: when
\* the link definitions type-check against the entities (Links extends
\* LinksDef<Entities>) and have no label collision, for every entity E the
\* type-level links map of E (EntityForwardLinksMap & EntityReverseLinksMap)
\* has an entry for a label exactly when the links map enrichEntitiesWithLinks
\* produced for E has one, and the entry has the same entityName and the same
\* cardinality.
C13_StaticAgreesWithRuntime ==
  (Returned /\ NoLabelCollision /\ \A i \in LinkIds : links[i] \in LinksDef(entities)) =>
    \A E \in DOMAIN entities :
      LET static == EntitiesWithLinks(entities, links)[E].links
          runtime == graph.entities[E].links
      IN /\ DOMAIN static = DOMAIN runtime
         /\ \A l \in DOMAIN runtime :
              /\ static[l].entityName = {runtime[l].entityName}
              /\ static[l].cardinality = {runtime[l].cardinality}

-----------------------------------------------------------------------------
(* Properties of query result shapes *)

Resolved == pc = "resolved"

\* The top-level query keys that name an entity
EntityKeys == (DOMAIN query) \cap (DOMAIN entities)

\* The shape under `alts` is the one shape of entity E for query document Q
\* that follows the links graph() recorded for E: a single alternative per
\* link label of E, of the recorded target and cardinality, and so on below.
RECURSIVE FollowsLinks(_, _, _)
FollowsLinks(E, Q, shape) ==
  \A key \in (DOMAIN Q) \cap (DOMAIN graph.entities[E].links) :
    LET def == graph.entities[E].links[key]
    IN \E alt \in shape.links[key] :
         /\ shape.links[key] = {alt}
         /\ alt.entityName = def.entityName
         /\ alt.cardinality = def.cardinality
         /\ def.entityName \in DOMAIN graph.entities
         /\ FollowsLinks(def.entityName, Q[key], alt.shape)

\* C2: shape resolution follows link cardinality recursively: every query key
\* that is a link label of the current entity resolves to the target entity
\* and cardinality recorded for it in the entity's enriched links map, a
\* single nested shape for "one" and a collection for "many" (so with
\* authors -many-> posts and posts -one-> authors, {posts: {author: {}}} is a
\* collection of {title, author: single {name}}).
C2_ShapeFollowsLinks ==
  Resolved =>
    \A E \in EntityKeys :
      \A alt \in result[E] : FollowsLinks(E, query[E], alt.shape)

\* C7: a top-level entity key resolves to a collection of that entity's shape,
\* unless its query object carries $first: then it resolves to a single shape
\* of that entity, and $first is none of the fields of the shape.
C7_FirstGivesSingleShape ==
  Resolved =>
    \A E \in EntityKeys :
      \E alt \in result[E] :
        /\ result[E] = {alt}
        /\ alt.entityName = E
        /\ DOMAIN alt.shape.attrs = DOMAIN entities[E].attrs
        /\ DOMAIN alt.shape.links = (DOMAIN query[E]) \ {"$first"}
        /\ IF "$first" \in DOMAIN query[E]
           THEN /\ alt.cardinality = "one"
                /\ "$first" \notin (DOMAIN alt.shape.attrs) \cup (DOMAIN alt.shape.links)
           ELSE alt.cardinality = "many"

\* A query with $first and a link key beside it has been resolved
C7_Witness ==
  /\ Resolved
  /\ \E E \in EntityKeys :
       /\ "$first" \in DOMAIN query[E]
       /\ (DOMAIN query[E]) \cap Labels # {}
       /\ \E alt \in result[E] : alt.cardinality = "one"

\* The (entity, key) pairs of query document Q, read at entity E, whose key
\* is no label of the links map of the entity it is read at
RECURSIVE UnknownLinks(_, _)
UnknownLinks(E, Q) ==
  {<<E, key>> : key \in (DOMAIN Q) \ ((DOMAIN graph.entities[E].links) \cup {"$first"})}
    \cup UNION {LET target == graph.entities[E].links[key].entityName
                IN IF target \in DOMAIN graph.entities
                   THEN UnknownLinks(target, Q[key])
                   ELSE {}
                : key \in (DOMAIN Q) \cap (DOMAIN graph.entities[E].links)}

\* C8: resolving a query whose nested key names a label absent from the
\* current entity's links map raises UnknownLink, identifying the entity and
\* the label.
C8_UnknownLinkRaises ==
  Resolved =>
    \A E \in EntityKeys :
      UnknownLinks(E, query[E]) # {} =>
        /\ thrown # <<>>
        /\ thrown[1] = "UnknownLink"
        /\ <<thrown[2], thrown[3]>> \in UnknownLinks(E, query[E])

\* Every shape under `alts`, nested ones included, has exactly the attributes
\* of its entity as fields, optional exactly when required is false
RECURSIVE AttrsAsDeclared(_)
AttrsAsDeclared(alts) ==
  \A alt \in alts :
    /\ DOMAIN alt.shape.attrs = DOMAIN entities[alt.entityName].attrs
    /\ \A a \in DOMAIN alt.shape.attrs :
         alt.shape.attrs[a].optional = (entities[alt.entityName].attrs[a].required = FALSE)
    /\ \A key \in DOMAIN alt.shape.links : AttrsAsDeclared(alt.shape.links[key])

\* C9: in every resolved entity shape, top-level or nested, every attribute
\* of the entity is a field, whether or not the query mentions it, and the
\* field is optional exactly when the attribute has required = false.
C9_AttrsInEveryShape ==
  Resolved => \A E \in DOMAIN query : AttrsAsDeclared(result[E])

\* A nested shape with an optional and a required attribute has been resolved
C9_Witness ==
  /\ Resolved
  /\ \E E \in EntityKeys :
       \E alt \in result[E] :
         \E key \in DOMAIN alt.shape.links :
           \E sub \in alt.shape.links[key] :
             /\ \E a \in DOMAIN sub.shape.attrs : sub.shape.attrs[a].optional
             /\ \E a \in DOMAIN sub.shape.attrs : ~ sub.shape.attrs[a].optional

-----------------------------------------------------------------------------
(* The Stripe webhook (src/server/src/instant/stripe.clj).  Every delivery *)
(* is an HTTP request handled on a thread of its own.  The handlers share  *)
(* the instant_subscriptions table and interleave at their database and    *)
(* network calls: no transaction or lock spans processed-event? and        *)
(* create!.                                                                *)

FREE_SUBSCRIPTION_TYPE == 1
PRO_SUBSCRIPTION_TYPE == 2

Envs == {"prod", "dev"}

\* The events Stripe delivers; a redelivery carries the same id and body
StripeEvents ==
  {[id |-> "evt_1", type |-> "checkout.session.completed", userId |-> "user-1"],
   [id |-> "evt_2", type |-> "customer.subscription.deleted", userId |-> "user-1"],
   [id |-> "evt_3", type |-> "invoice.paid", userId |-> "user-1"]}

InitStripe ==
  /\ NoGraphCall
  /\ NoCommand
  /\ env \in Envs
  /\ subscriptions = <<>>
  /\ notifications = <<>>
  /\ handlers = [d \in Deliveries |-> IdleHandler]

\* instant-subscription-model/get-by-event-id: the rows of the event
get_by_event_id(eventId) ==
  {i \in DOMAIN subscriptions : subscriptions[i].stripeEventId = eventId}

processed_event(eventId) == get_by_event_id(eventId) # {}

\* The opts handed to create!
Opts(e) ==
  [userId |-> e.userId,
   stripeEventId |-> e.id,
   subscriptionTypeId |-> IF e.type = "checkout.session.completed"
                          THEN PRO_SUBSCRIPTION_TYPE
                          ELSE FREE_SUBSCRIPTION_TYPE]

\* webhook: constructEvent accepts the signature and the body is handed to
\* handle-stripe-webhook-event
webhook(d, e) ==
  /\ handlers' = [handlers EXCEPT ![d] = [pc |-> "handle", event |-> e]]
  /\ UNCHANGED <<env, subscriptions, notifications, graphVars, pushVars>>

webhookAccepted ==
  \E d \in Deliveries :
    /\ handlers[d].pc = "idle"
    /\ \E e \in StripeEvents : webhook(d, e)

\* webhook: constructEvent throws or returns nil; nothing is handled
webhookRejected ==
  \E d \in Deliveries :
    /\ handlers[d].pc = "idle"
    /\ handlers' = [handlers EXCEPT ![d].pc = "error"]
    /\ UNCHANGED <<env, subscriptions, notifications, graphVars, pushVars>>

\* (if (processed-event? id) ... (condp = type ...)): the read of the table
\* and the choice of the branch
handle_stripe_webhook_event(d) ==
  LET e == handlers[d].event
  IN /\ handlers' = [handlers EXCEPT ![d].pc =
                       IF processed_event(e.id)
                       THEN "ok"
                       ELSE IF e.type \in {"checkout.session.completed",
                                           "customer.subscription.deleted"}
                            THEN "create"
                            ELSE "ok"]
     /\ UNCHANGED <<env, subscriptions, notifications, graphVars, pushVars>>

handleEvent ==
  \E d \in Deliveries :
    /\ handlers[d].pc = "handle"
    /\ handle_stripe_webhook_event(d)

\* (instant-subscription-model/create! opts), then (when (= :prod (config/get-env)) ...)
create(d) ==
  LET e == handlers[d].event
  IN /\ subscriptions' = Append(subscriptions, Opts(e))
     /\ handlers' = [handlers EXCEPT ![d].pc = IF env = "prod" THEN "ping" ELSE "ok"]
     /\ UNCHANGED <<env, notifications, graphVars, pushVars>>

createRow ==
  \E d \in Deliveries :
    /\ handlers[d].pc = "create"
    /\ create(d)

\* create! throws: the table refuses a second row of the same event id
createRejected ==
  \E d \in Deliveries :
    /\ handlers[d].pc = "create"
    /\ processed_event(handlers[d].event.id)
    /\ handlers' = [handlers EXCEPT ![d].pc = "error"]
    /\ UNCHANGED <<env, subscriptions, notifications, graphVars, pushVars>>

\* The message of ping-js-on-new-customer or ping-js-on-churned-customer
Message(e) ==
  IF e.type = "checkout.session.completed"
  THEN <<"New customer!", e.userId>>
  ELSE <<"Churned customer!", e.userId>>

\* ping-js-on-new-customer, ping-js-on-churned-customer: discord/send! and
\* postmark/send!, then the response
ping(d) ==
  LET e == handlers[d].event
  IN /\ notifications' = notifications \o <<[via |-> "discord", message |-> Message(e)],
                                             [via |-> "postmark", message |-> Message(e)]>>
     /\ handlers' = [handlers EXCEPT ![d].pc = "ok"]
     /\ UNCHANGED <<env, subscriptions, graphVars, pushVars>>

pingCustomer ==
  \E d \in Deliveries :
    /\ handlers[d].pc = "ping"
    /\ ping(d)

NextStripe ==
  \/ webhookAccepted
  \/ webhookRejected
  \/ handleEvent
  \/ createRow
  \/ createRejected
  \/ pingCustomer

SpecStripe == InitStripe /\ [][NextStripe]_vars

\* The pings sent for event e
Pings(e) ==
  {i \in DOMAIN notifications :
     notifications[i].via = "discord" /\ notifications[i].message = Message(e)}

-----------------------------------------------------------------------------
(* pushSchema(), the push-schema command.  An action is the code between   *)
(* two awaits; log records the prompts, console messages and requests in   *)
(* the order pushSchema() makes them (the output of --verbose is left      *)
(* out).                                                                   *)

\* if (x) on a string that may be null: null and "" are falsy
Truthy(x) == x # <<>> /\ x[1] # ""

\* The contents of the auth file (<<>>: readFile is rejected)
AuthFileContents == {<<>>, <<"">>, <<"file-token">>}

\* What readLocalSchema() returns: no file, a schema without or with an appId
Schemas == {<<>>, <<[appId |-> ""]>>, <<[appId |-> "app-1"]>>}

Call(name, arg, returned) == [call |-> name, arg |-> arg, result |-> returned]

ProductionMessage == "This will immediately update your production schema, OK to proceed?"
ProceedMessage == "OK to proceed?"

InitPush ==
  /\ NoGraphCall
  /\ NoWebhook
  /\ options \in [y : BOOLEAN, token : {<<>>, <<"cli-token">>}]
  /\ push = IdlePush
  /\ log = <<>>

\* The values readConfigAuthToken() can return
readConfigAuthToken == IF Truthy(options.token) THEN {options.token} ELSE AuthFileContents

\* The values promptOk(message) can return: true with -y, else the answer
\* (false when the prompt is rejected)
promptOk == IF options.y THEN {TRUE} ELSE BOOLEAN

\* const authToken = await readConfigAuthToken(); const schema = await readLocalSchema();
readConfig ==
  /\ push.pc = "start"
  /\ \E token \in readConfigAuthToken, schema \in Schemas :
       push' = [push EXCEPT !.pc = "confirm", !.authToken = token, !.schema = schema]
  /\ UNCHANGED <<options, log, graphVars, stripeVars>>

\* loadConfig throws on a schema file that cannot be loaded
readFailed ==
  /\ push.pc = "start"
  /\ push' = [push EXCEPT !.pc = "failed"]
  /\ UNCHANGED <<options, log, graphVars, stripeVars>>

\* From the answer of the first promptOk to the plan request
confirmAndPlan(ok) ==
  /\ IF ~ ok
     THEN /\ push' = [push EXCEPT !.pc = "done"]
          /\ log' = Append(log, Call("promptOk", ProductionMessage, "false"))
     ELSE IF ~ Truthy(push.authToken)
     THEN /\ push' = [push EXCEPT !.pc = "done"]
          /\ log' = log \o <<Call("promptOk", ProductionMessage, "true"),
                              Call("console.log", "Planning...", ""),
                              Call("console.error", "Unauthenticated.", "")>>
     ELSE IF push.schema = <<>>
     THEN /\ push' = [push EXCEPT !.pc = "done"]
          /\ log' = log \o <<Call("promptOk", ProductionMessage, "true"),
                              Call("console.log", "Planning...", ""),
                              Call("console.error", "Missing instant.schema file!", "")>>
     ELSE IF push.schema[1].appId = ""
     THEN /\ push' = [push EXCEPT !.pc = "done"]
          /\ log' = log \o <<Call("promptOk", ProductionMessage, "true"),
                              Call("console.log", "Planning...", ""),
                              Call("console.error", "Missing app ID in instant.schema!", "")>>
     ELSE /\ push' = [push EXCEPT !.pc = "planning"]
          /\ log' = log \o <<Call("promptOk", ProductionMessage, "true"),
                              Call("console.log", "Planning...", ""),
                              Call("fetch", "plan", "sent")>>
  /\ UNCHANGED <<options, graphVars, stripeVars>>

confirmPlan ==
  /\ push.pc = "confirm"
  /\ \E ok \in promptOk : confirmAndPlan(ok)

\* From the plan response to the second promptOk
planResponse(ok, n) ==
  /\ IF ~ ok
     THEN /\ push' = [push EXCEPT !.pc = "done"]
          /\ log' = log \o <<Call("response", "plan", "not ok"),
                              Call("console.error", "Failed to update schema", "")>>
     ELSE IF n = 0
     THEN /\ push' = [push EXCEPT !.pc = "done", !.steps = n]
          /\ log' = log \o <<Call("response", "plan", "ok"),
                              Call("console.log", "No schema changes detected.  Exiting.", "")>>
     ELSE /\ push' = [push EXCEPT !.pc = "confirmPush", !.steps = n]
          /\ log' = log \o <<Call("response", "plan", "ok"),
                              Call("console.log", "The following changes will be applied to your production schema:", "")>>
  /\ UNCHANGED <<options, graphVars, stripeVars>>

planAnswered ==
  /\ push.pc = "planning"
  /\ \E ok \in BOOLEAN, n \in 0..MaxSteps : planResponse(ok, n)

\* fetch is rejected, or the body is no JSON with steps: pushSchema() throws
planRejected ==
  /\ push.pc = "planning"
  /\ push' = [push EXCEPT !.pc = "failed"]
  /\ log' = Append(log, Call("response", "plan", "rejected"))
  /\ UNCHANGED <<options, graphVars, stripeVars>>

\* Mutant: the answer of the second prompt is not read
confirmAndApply_IgnoresAnswer(okPush) ==
  /\ push' = [push EXCEPT !.pc = "applying"]
  /\ log' = log \o <<Call("promptOk", ProceedMessage, IF okPush THEN "true" ELSE "false"),
                      Call("fetch", "apply", "sent")>>
  /\ UNCHANGED <<options, graphVars, stripeVars>>

\* From the answer of the second promptOk to the apply request
confirmAndApply(okPush) ==
  /\ IF ~ okPush
     THEN /\ push' = [push EXCEPT !.pc = "done"]
          /\ log' = Append(log, Call("promptOk", ProceedMessage, "false"))
     ELSE /\ push' = [push EXCEPT !.pc = "applying"]
          /\ log' = log \o <<Call("promptOk", ProceedMessage, "true"),
                              Call("fetch", "apply", "sent")>>
  /\ UNCHANGED <<options, graphVars, stripeVars>>

confirmPush ==
  /\ push.pc = "confirmPush"
  /\ \E okPush \in promptOk : confirmAndApply(okPush)

\* The apply response
applyResponse(ok) ==
  /\ push' = [push EXCEPT !.pc = "done"]
  /\ log' = log \o <<Call("response", "apply", IF ok THEN "ok" ELSE "not ok"),
                      IF ok
                      THEN Call("console.log", "Schema updated!", "")
                      ELSE Call("console.error", "Failed to update schema", "")>>
  /\ UNCHANGED <<options, graphVars, stripeVars>>

applyAnswered ==
  /\ push.pc = "applying"
  /\ \E ok \in BOOLEAN : applyResponse(ok)

applyRejected ==
  /\ push.pc = "applying"
  /\ push' = [push EXCEPT !.pc = "failed"]
  /\ log' = Append(log, Call("response", "apply", "rejected"))
  /\ UNCHANGED <<options, graphVars, stripeVars>>

NextPush ==
  \/ readConfig
  \/ readFailed
  \/ confirmPlan
  \/ planAnswered
  \/ planRejected
  \/ confirmPush
  \/ applyAnswered
  \/ applyRejected

SpecPush == InitPush /\ [][NextPush]_vars

\* The positions of log before position k that hold entry c
Before(k, c) == {i \in 1..(k - 1) : log[i] = c}

\* authToken, schema and schema.appId have passed the three guards
InputsFound ==
  /\ Truthy(push.authToken)
  /\ push.schema # <<>>
  /\ push.schema[1].appId # ""

\* C16: the apply request is sent only after, in this order, the first
\* promptOk returned true (accepted, or -y), the auth token, the schema and
\* its appId passed the guards and the plan request was sent, the plan
\* response was ok with at least one step, and the second promptOk returned
\* true; it is sent at most once; and no plan request is sent unless the
\* first promptOk returned true and auth token, schema and appId are there.
C16_ApplyOnlyAfterConfirmedPlan ==
  /\ \A k \in DOMAIN log :
       log[k] = Call("fetch", "apply", "sent") =>
         /\ InputsFound
         /\ push.steps >= 1
         /\ Before(k, Call("fetch", "apply", "sent")) = {}
         /\ \E c1 \in Before(k, Call("promptOk", ProductionMessage, "true")) :
              \E p \in Before(k, Call("fetch", "plan", "sent")) :
                \E r \in Before(k, Call("response", "plan", "ok")) :
                  \E c2 \in Before(k, Call("promptOk", ProceedMessage, "true")) :
                    c1 < p /\ p < r /\ r < c2
  /\ \A k \in DOMAIN log :
       log[k] = Call("fetch", "plan", "sent") =>
         /\ InputsFound
         /\ Before(k, Call("promptOk", ProductionMessage, "true")) # {}
         /\ Before(k, Call("fetch", "plan", "sent")) = {}

\* Without -y, both prompts were answered yes and the apply request was sent
C16_Witness ==
  /\ ~ options.y
  /\ \E k \in DOMAIN log : log[k] = Call("fetch", "apply", "sent")
  /\ push.pc = "done"

=============================================================================
